---- MODULE Spec2Model ----
(***************************************************************************)
(* SnpePosterior (sbi/inference/posteriors/snpe_posterior.py): the leakage *)
(* correction cache, the sampling-mode switch, the masked log-probability  *)
(* and the sampling dispatcher, as a state machine over one posterior      *)
(* object.  One action per public operation; every action records the call *)
(* it made (op, args, ret) and what it invoked on the external samplers.   *)
(***************************************************************************)
EXTENDS Integers, Sequences, FiniteSets, TLC

(* ------------------------------ bounds --------------------------------- *)

\* Largest batch of rows (theta, x) given to one call.
MaxBatch == 2
\* Largest size of one dimension of sample_shape.
MaxDim == 2
\* Values of an MCMC parameter are 1..MaxParam.
MaxParam == 2
\* Dimension of one parameter draw theta.
ThetaDim == 2
\* Acceptance estimates are 2^-k for k in 0..MaxLeak.
MaxLeak == 1
\* Saturation point of the counters that observe a run of cache lookups.
MaxRun == 2

\* The rounds of a rejection-sampling loop are counted modulo MaxAttempts + 1.
MaxAttempts == 3

(* ------------------- Python None / Optional values ---------------------- *)

\* Optional values are sequences of length at most one: None is <<>>.
None == <<>>

Some(v) == <<v>>

(* ------------------------ IEEE float32 entries -------------------------- *)

Fin(n) == [k |-> "fin", v |-> n]

NegInf == [k |-> "-inf", v |-> 0]

PosInf == [k |-> "+inf", v |-> 0]

NaN == [k |-> "nan", v |-> 0]

\* torch.isfinite
IsFinite(a) == a.k = "fin"

\* Elementwise a != b of two float entries: NaN differs from everything.
TorchNe(a, b) == a.k = "nan" \/ b.k = "nan" \/ a # b

\* a - b on float entries.
TorchSub(a, b) ==
  IF a.k = "nan" \/ b.k = "nan" THEN NaN
  ELSE IF a.k = "fin" /\ b.k = "fin" THEN Fin(a.v - b.v)
  ELSE IF a.k = "fin" THEN (IF b.k = "+inf" THEN NegInf ELSE PosInf)
  ELSE IF b.k = a.k THEN NaN
  ELSE a

(* ------------------------------ contexts -------------------------------- *)

\* Values of a single conditioning context x (one row, two features).
CtxVals == { <<Fin(0), Fin(0)>>, <<Fin(0), Fin(1)>>, <<NaN, Fin(0)>> }

\* A context tensor is an object holding a value (val); id tells apart the objects
\* that hold the same value, so "x is y" is x = y.
ObjIds == {1, 2}

Contexts == [id : ObjIds, val : CtxVals]

\* (x != y).any() on two tensors of the same shape.
AnyNe(u, v) == \E i \in DOMAIN u : TorchNe(u[i], v[i])

\* "Equal in value": the same object, or a distinct one equal element by element.
SameValue(x, y) == x = y \/ \A i \in DOMAIN x.val : ~TorchNe(x.val[i], y.val[i])

(* ------------------------- posterior configuration ---------------------- *)

MethodFamilies == {"snpe", "snl", "snre_a", "snre_b"}

\* The acceptance estimate 2^-k is represented by its exponent k, so that
\* log(2^-k) = -k in units of log 2; estimates lie in (0, 1].
Factors == 0..MaxLeak

VARIABLES
  method_family,      \* self._method_family
  sample_with_mcmc,   \* self._sample_with_mcmc
  mcmc_method,        \* self.mcmc_method
  mcmc_parameters,    \* self.mcmc_parameters
  default_x,          \* self.default_x: None or Some(context)
  leakage_density_correction_factor,  \* None or Some(k)
  saved_at,           \* history: the context the stored factor was estimated at
  op,                 \* the last operation called
  args,               \* its arguments
  ret,                \* [raised, value]: what it raised or returned
  estimated,          \* acceptance_at invocations of the last call: <<[at, val]>>
  sampler,            \* sampler invocations of the last call
  run,                \* history of the current run of unforced lookups at default_x
  request,            \* the arguments of the call under study (None when drawn per step)
  overridden,         \* history: some sample() call so far was given an override
  loop                \* the rejection-sampling loop in flight: None or Some(record)

vars == << method_family, sample_with_mcmc, mcmc_method, mcmc_parameters, default_x,
           leakage_density_correction_factor, saved_at, op, args, ret, estimated,
           sampler, run, request, overridden, loop >>

config == << method_family, mcmc_method, mcmc_parameters, request >>

Returned(v) == [raised |-> "", value |-> v]

Raised(e) == [raised |-> e, value |-> <<>>]

NoRun == [len |-> 0, est |-> 0, first_est |-> FALSE, start_empty |-> FALSE,
          same |-> TRUE, distinct |-> FALSE, value |-> None]

Sat(n) == IF n < MaxRun THEN n + 1 ELSE MaxRun

(* ---------------------------- set_sample_with_mcmc ---------------------- *)

SetSampleWithMcmcAssignsFirst(use_mcmc) ==
  IF ~use_mcmc /\ method_family \notin {"snpe"}
  THEN [raised |-> "ValueError", mode |-> use_mcmc]
  ELSE [raised |-> "", mode |-> use_mcmc]

SetSampleWithMcmcUnchecked(use_mcmc) == [raised |-> "", mode |-> use_mcmc]

\* Outcome of set_sample_with_mcmc(use_mcmc): what is raised, and the stored mode.
SetSampleWithMcmcResult(use_mcmc) ==
  IF ~use_mcmc /\ method_family \notin {"snpe"}
  THEN [raised |-> "ValueError", mode |-> sample_with_mcmc]
  ELSE [raised |-> "", mode |-> use_mcmc]

SetSampleWithMcmc(use_mcmc) ==
  LET r == SetSampleWithMcmcResult(use_mcmc) IN
  /\ sample_with_mcmc' = r.mode
  /\ op' = "set_sample_with_mcmc"
  /\ args' = [use_mcmc |-> use_mcmc]
  /\ ret' = IF r.raised # "" THEN Raised(r.raised) ELSE Returned("self")
  /\ estimated' = <<>>
  /\ sampler' = <<>>
  /\ UNCHANGED << config, default_x, leakage_density_correction_factor, saved_at, run,
                  overridden, loop >>

(* -------------------------------- __init__ ------------------------------ *)

\* The posteriors __init__ can build: set_sample_with_mcmc(sample_with_mcmc)
\* must not raise on the fresh object.
Constructed(family, use_mcmc, method, parameters) ==
  /\ use_mcmc \/ family \in {"snpe"}
  /\ method_family = family
  /\ sample_with_mcmc = use_mcmc
  /\ mcmc_method = method
  /\ mcmc_parameters = parameters
  /\ default_x = None
  /\ leakage_density_correction_factor = None
  /\ saved_at = None
  /\ op = "__init__"
  /\ args = [sample_with_mcmc |-> use_mcmc]
  /\ ret = Returned("self")
  /\ estimated = <<>>
  /\ sampler = <<>>
  /\ run = NoRun
  /\ overridden = FALSE
  /\ loop = None

NoRequest == request = None

\* Construction with the default mcmc_method and mcmc_parameters.
Init ==
  \E family \in MethodFamilies, use_mcmc \in BOOLEAN :
    Constructed(family, use_mcmc, "slice_np", {}) /\ NoRequest

(* ------------------------------- set_default_x -------------------------- *)

SetDefaultX(x) ==
  /\ default_x' = Some(x)
  /\ op' = "set_default_x"
  /\ args' = [x |-> x]
  /\ ret' = Returned("self")
  /\ estimated' = <<>>
  /\ sampler' = <<>>
  /\ run' = NoRun
  /\ UNCHANGED << config, sample_with_mcmc, leakage_density_correction_factor, saved_at,
                  overridden, loop >>

(* ----------------------------- leakage_correction ----------------------- *)

\* is_new_x
IsNewX(x) ==
  default_x = None \/ (x # default_x[1] /\ AnyNe(x.val, default_x[1].val))

Kept(x) == [value |-> leakage_density_correction_factor[1], store |-> FALSE, est |-> <<>>]

Fresh(x, f, store) == [value |-> f, store |-> store, est |-> << [at |-> x, val |-> f] >>]

LeakageCorrectionIgnoresStore(x, force_update, f) ==
  IF IsNewX(x) THEN Fresh(x, f, FALSE)
  ELSE IF leakage_density_correction_factor = None \/ ~force_update
  THEN Fresh(default_x[1], f, TRUE)
  ELSE Kept(x)

LeakageCorrectionSavesNewX(x, force_update, f) ==
  IF IsNewX(x) THEN Fresh(x, f, TRUE)
  ELSE IF leakage_density_correction_factor = None \/ force_update
  THEN Fresh(default_x[1], f, TRUE)
  ELSE Kept(x)

LeakageCorrectionIgnoresForce(x, force_update, f) ==
  IF IsNewX(x) THEN Fresh(x, f, FALSE)
  ELSE IF leakage_density_correction_factor = None
  THEN Fresh(default_x[1], f, TRUE)
  ELSE Kept(x)

\* leakage_correction(x, force_update), where f is what acceptance_at returns if
\* it is invoked: the value returned, whether it is stored, and the acceptance_at
\* invocations made.
LeakageCorrectionResult(x, force_update, f) ==
  IF IsNewX(x) THEN Fresh(x, f, FALSE)
  ELSE IF leakage_density_correction_factor = None \/ force_update
  THEN Fresh(default_x[1], f, TRUE)
  ELSE Kept(x)

\* The stored factor after a call with result r.
StoredAfter(r) == IF r.store THEN Some(r.value) ELSE leakage_density_correction_factor

\* History of the unforced lookups at a context equal in value to default_x made
\* since default_x was last set or the store was last force-updated.
RunAfter(x, force_update, r) ==
  IF default_x = None \/ ~SameValue(x, default_x[1]) THEN run
  ELSE IF force_update THEN NoRun
  ELSE IF run.len = 0
  THEN [len |-> 1, est |-> Len(r.est), first_est |-> r.est # <<>>,
        start_empty |-> leakage_density_correction_factor = None,
        same |-> StoredAfter(r) = Some(r.value), distinct |-> x # default_x[1],
        value |-> Some(r.value)]
  ELSE [run EXCEPT !.len = Sat(run.len),
                   !.est = IF r.est # <<>> THEN Sat(run.est) ELSE run.est,
                   !.same = run.same /\ Some(r.value) = run.value
                            /\ StoredAfter(r) = run.value,
                   !.distinct = run.distinct \/ x # default_x[1]]

LeakageCorrection(x, force_update) ==
  \E f \in Factors :
    LET r == LeakageCorrectionResult(x, force_update, f) IN
    /\ leakage_density_correction_factor' = StoredAfter(r)
    /\ saved_at' = IF r.store THEN Some(r.est[1].at) ELSE saved_at
    /\ op' = "leakage_correction"
    /\ args' = [x |-> x, force_update |-> force_update,
                before |-> leakage_density_correction_factor]
    /\ ret' = Returned(r.value)
    /\ estimated' = r.est
    /\ sampler' = <<>>
    /\ run' = RunAfter(x, force_update, r)
    /\ UNCHANGED << config, sample_with_mcmc, default_x, overridden, loop >>

(* --------------------------- cache of the factor ------------------------ *)

C2_StoredFactorIsForDefault ==
  (op = "leakage_correction" /\ estimated = <<>>) =>
    /\ saved_at # None
    /\ default_x # None
    /\ SameValue(saved_at[1], default_x[1])

\* C3 (non-default contexts are never cached): a leakage_correction(c') call
\* with c' not equal in value to default_x, or with no default_x set, estimates
\* afresh at c', returns that estimate and leaves the stored factor as it was,
\* with or without force_update.
C3_NonDefaultNeverCached ==
  [][ (op' = "leakage_correction"
       /\ (default_x = None \/ ~SameValue(args'.x, default_x[1])))
      => /\ ret'.raised = ""
         /\ estimated' = << [at |-> args'.x, val |-> ret'.value] >>
         /\ leakage_density_correction_factor' = leakage_density_correction_factor
    ]_vars

C3_Witness ==
  /\ op = "leakage_correction"
  /\ default_x # None /\ ~SameValue(args.x, default_x[1])
  /\ args.force_update
  /\ args.before # None
  /\ leakage_density_correction_factor = args.before
  /\ estimated # <<>> /\ Some(ret.value) # leakage_density_correction_factor

\* C4 (forced refresh): leakage_correction(c, force_update=True) with c equal in
\* value to default_x estimates afresh at default_x even when a factor is
\* stored, stores the new estimate and returns it.
C4_ForcedRefresh ==
  [][ (op' = "leakage_correction" /\ args'.force_update
       /\ default_x # None /\ SameValue(args'.x, default_x[1]))
      => /\ ret'.raised = ""
         /\ estimated' = << [at |-> default_x[1], val |-> ret'.value] >>
         /\ leakage_density_correction_factor' = Some(ret'.value)
    ]_vars

C4_Witness ==
  /\ op = "leakage_correction" /\ args.force_update
  /\ default_x # None /\ SameValue(args.x, default_x[1]) /\ args.x # default_x[1]
  /\ args.before # None
  /\ leakage_density_correction_factor # args.before

(* ------------------------------ sampling mode --------------------------- *)

\* C5 (mode transition): set_sample_with_mcmc(False) on a posterior whose
\* method family is not snpe raises and leaves the stored mode unchanged; every
\* other call stores the requested mode and returns the posterior itself.
C5_ModeTransition ==
  [][ op' = "set_sample_with_mcmc" =>
        IF ~args'.use_mcmc /\ method_family # "snpe"
        THEN ret'.raised = "ValueError" /\ sample_with_mcmc' = sample_with_mcmc
        ELSE /\ ret'.raised = "" /\ ret'.value = "self"
             /\ sample_with_mcmc' = args'.use_mcmc
    ]_vars

C5_Witness ==
  /\ op = "set_sample_with_mcmc" /\ ~args.use_mcmc
  /\ method_family = "snre_a"
  /\ ret.raised = "ValueError" /\ sample_with_mcmc

(* ------------------------------ _log_prob_snpe -------------------------- *)

\* torch.log of the acceptance estimate 2^-k, in units of log 2.
TorchLog(k) == Fin(0 - k)

\* batched_first_of_batch(x): x[0:1], a new tensor holding the first row of x.
BatchedFirstOfBatch(xb) == [id |-> 0, val |-> xb[1]]

MaskedLogProbUnmasked(unnorm_log_prob, prior_log_prob) == unnorm_log_prob

\* torch.where(is_prior_finite, unnorm_log_prob, -inf)
MaskedLogProb(unnorm_log_prob, prior_log_prob) ==
  [i \in DOMAIN unnorm_log_prob |->
     IF IsFinite(prior_log_prob[i]) THEN unnorm_log_prob[i] ELSE NegInf]

LogProbSnpeValueAdds(unnorm_log_prob, prior_log_prob, log_factor) ==
  [i \in DOMAIN unnorm_log_prob |->
     TorchSub(MaskedLogProb(unnorm_log_prob, prior_log_prob)[i],
              TorchSub(Fin(0), log_factor))]

\* masked_log_prob - log_factor, the scalar log_factor broadcast over the batch.
LogProbSnpeValue(unnorm_log_prob, prior_log_prob, log_factor) ==
  [i \in DOMAIN unnorm_log_prob |->
     TorchSub(MaskedLogProb(unnorm_log_prob, prior_log_prob)[i], log_factor)]

ConsultsLeakageAlways(norm_posterior) == TRUE

\* Whether the conditional expression for log_factor evaluates
\* self.leakage_correction(...): only if norm_posterior.
ConsultsLeakage(norm_posterior) == norm_posterior

\* _log_prob_snpe(theta, x, norm_posterior): unnorm_log_prob is what
\* net.log_prob(theta, x) returns and prior_log_prob what prior.log_prob(theta)
\* returns, entry by entry; leakage_correction runs only if norm_posterior.
LogProbSnpe(unnorm_log_prob, prior_log_prob, xb, norm_posterior) ==
  \E f \in Factors :
    LET x1 == BatchedFirstOfBatch(xb)
        r == LeakageCorrectionResult(x1, FALSE, f)
        log_factor == IF norm_posterior THEN TorchLog(r.value) ELSE Fin(0)
    IN
    /\ leakage_density_correction_factor' =
         IF ConsultsLeakage(norm_posterior) THEN StoredAfter(r)
         ELSE leakage_density_correction_factor
    /\ saved_at' = IF ConsultsLeakage(norm_posterior) /\ r.store
                   THEN Some(r.est[1].at) ELSE saved_at
    /\ op' = "_log_prob_snpe"
    /\ args' = [unnorm_log_prob |-> unnorm_log_prob, prior_log_prob |-> prior_log_prob,
                x |-> xb, norm_posterior |-> norm_posterior,
                before |-> leakage_density_correction_factor]
    /\ ret' = Returned(LogProbSnpeValue(unnorm_log_prob, prior_log_prob, log_factor))
    /\ estimated' = IF ConsultsLeakage(norm_posterior) THEN r.est ELSE <<>>
    /\ sampler' = <<>>
    /\ run' = IF ConsultsLeakage(norm_posterior) THEN RunAfter(x1, FALSE, r) ELSE run
    /\ UNCHANGED << config, sample_with_mcmc, default_x, overridden, loop >>

\* What net.log_prob and prior.log_prob can return for one theta:
\* [u: the estimator's log-density, p: the prior's log-density].
ThetaEntries ==
  { [u |-> Fin(1), p |-> Fin(0)], [u |-> PosInf, p |-> Fin(0)],
    [u |-> Fin(1), p |-> NegInf], [u |-> PosInf, p |-> NegInf],
    [u |-> NaN, p |-> NaN] }

\* The _log_prob_snpe calls studied: a batch of theta with the x rows of the batch.
LogProbRequests ==
  UNION { [theta : [1..n -> ThetaEntries], x : [1..n -> CtxVals],
           norm_posterior : BOOLEAN] : n \in 1..MaxBatch }

LogProbCall ==
  /\ request # None
  /\ LET q == request[1] IN
       LogProbSnpe([i \in DOMAIN q.theta |-> q.theta[i].u],
                   [i \in DOMAIN q.theta |-> q.theta[i].p], q.x, q.norm_posterior)

\* A snpe posterior as constructed, and the _log_prob_snpe call to study on it.
InitLogProb ==
  /\ Constructed("snpe", TRUE, "slice_np", {})
  /\ \E q \in LogProbRequests : request = Some(q)

NextLogProb ==
  \/ \E x \in Contexts : SetDefaultX(x)
  \/ LogProbCall

SpecLogProb == InitLogProb /\ [][NextLogProb]_vars

\* The correction the last _log_prob_snpe call took from leakage_correction.
CorrectionUsed ==
  IF estimated # <<>> THEN estimated[1].val ELSE leakage_density_correction_factor[1]

\* C7 (support masking): for every theta whose prior log-density is not finite
\* _log_prob_snpe returns -inf, with and without normalization, whatever the
\* estimator returned for it and whatever the correction factor.
C7_SupportMasking ==
  op = "_log_prob_snpe" =>
    \A i \in DOMAIN args.prior_log_prob :
      ~IsFinite(args.prior_log_prob[i]) => ret.value[i] = NegInf

C7_Witness ==
  /\ op = "_log_prob_snpe" /\ args.norm_posterior
  /\ CorrectionUsed > 0
  /\ \E i \in DOMAIN args.prior_log_prob :
       /\ ~IsFinite(args.prior_log_prob[i])
       /\ args.unnorm_log_prob[i] = PosInf
       /\ ret.value[i] = NegInf

\* C8 (normalization relation): with norm_posterior the value for every theta
\* inside the prior support is the unnormalized value minus the log of one
\* leakage correction, evaluated at the first row of the batch x and applied to
\* every entry of the batch.
C8_NormalizationRelation ==
  (op = "_log_prob_snpe" /\ args.norm_posterior) =>
    /\ estimated # <<>> => Len(estimated) = 1 /\ estimated[1].at.val = args.x[1]
    /\ estimated = <<>> => default_x # None /\ default_x[1].val = args.x[1]
    /\ \A i \in DOMAIN args.prior_log_prob :
         IsFinite(args.prior_log_prob[i]) =>
           ret.value[i] =
             TorchSub(LogProbSnpeValue(args.unnorm_log_prob, args.prior_log_prob,
                                       Fin(0))[i],
                      TorchLog(CorrectionUsed))

C8_Witness ==
  /\ op = "_log_prob_snpe" /\ args.norm_posterior
  /\ Len(args.x) = 2 /\ args.x[1] # args.x[2]
  /\ CorrectionUsed > 0
  /\ IsFinite(args.prior_log_prob[1]) /\ IsFinite(args.prior_log_prob[2])
  /\ ret.value[1] = Fin(1 + CorrectionUsed)
  /\ ret.value[2] = PosInf

\* The same calls on one theta, on a posterior whose stored factor may have been
\* saved by earlier leakage_correction calls.
InitLogProbStored ==
  /\ Constructed("snpe", TRUE, "slice_np", {})
  /\ \E q \in LogProbRequests : Len(q.theta) = 1 /\ request = Some(q)

NextLogProbStored ==
  \/ \E x \in Contexts : SetDefaultX(x)
  \/ default_x # None /\ \E force_update \in BOOLEAN :
                           LeakageCorrection(default_x[1], force_update)
  \/ LogProbCall

SpecLogProbStored == InitLogProbStored /\ [][NextLogProbStored]_vars

\* C13 (no estimation without normalization): _log_prob_snpe with
\* norm_posterior=False invokes neither leakage_correction nor acceptance_at and
\* leaves the stored correction factor as it was.
C13_NoEstimationWithoutNorm ==
  [][ (op' = "_log_prob_snpe" /\ ~args'.norm_posterior)
      => /\ estimated' = <<>>
         /\ leakage_density_correction_factor' = leakage_density_correction_factor
         /\ saved_at' = saved_at
         /\ run' = run
    ]_vars

C13_Witness ==
  /\ op = "_log_prob_snpe" /\ ~args.norm_posterior
  /\ default_x # None /\ SameValue(BatchedFirstOfBatch(args.x), default_x[1])
  /\ leakage_density_correction_factor # None
  /\ estimated = <<>>

(* ---------------------------------- sample ------------------------------ *)

\* Keys of mcmc_parameters; a dictionary is a set of <<key, value>> pairs.
McmcKeys == {"thin", "warmup_steps"}

Dicts ==
  { d \in SUBSET (McmcKeys \X (1..MaxParam)) : \A p, q \in d : p[1] = q[1] => p = q }

Keys(d) == { p[1] : p \in d }

\* torch.Size(sample_shape).numel()
RECURSIVE Numel(_)
Numel(shape) == IF shape = <<>> THEN 1 ELSE Head(shape) * Numel(Tail(shape))

\* Tensor.reshape((*sample_shape, -1)) of a tensor of numel elements: the shape
\* of the result, or None when torch cannot infer the last dimension.
Reshape(numel, sample_shape) ==
  IF Numel(sample_shape) = 0 THEN None
  ELSE IF numel % Numel(sample_shape) # 0 THEN None
  ELSE Some(sample_shape \o << numel \div Numel(sample_shape) >>)

\* self._x_else_default_x(x): the batch to condition on, or None (it raises).
XElseDefaultX(x) ==
  IF x # None THEN x
  ELSE IF default_x # None THEN Some(<< default_x[1].val >>)
  ELSE None

\* self._ensure_single_x(x)
IsSingleX(xb) == Len(xb) = 1

\* self._ensure_x_consistent_with_default_x(x)
IsConsistentWithDefaultX(xb) ==
  default_x = None \/ ~AnyNe(xb[1], default_x[1].val)

\* sample_with_mcmc if sample_with_mcmc is not None else self.sample_with_mcmc
ResolveSampleWithMcmc(o) == IF o # None THEN o[1] ELSE sample_with_mcmc

\* mcmc_method if mcmc_method is not None else self.mcmc_method
ResolveMcmcMethod(o) == IF o # None THEN o[1] ELSE mcmc_method

ResolveMcmcParametersMerged(o) ==
  IF o # None
  THEN o[1] \cup { p \in mcmc_parameters : p[1] \notin Keys(o[1]) }
  ELSE mcmc_parameters

\* mcmc_parameters if mcmc_parameters is not None else self.mcmc_parameters
ResolveMcmcParameters(o) == IF o # None THEN o[1] ELSE mcmc_parameters

\* The one sampler invocation of a sample() call that passed validation.
SamplerCall(xb, num_samples, use_mcmc, method, parameters) ==
  IF use_mcmc
  THEN [path |-> "mcmc", x |-> xb, num_samples |-> num_samples,
        mcmc_method |-> method, kwargs |-> parameters]
  ELSE [path |-> "rejection", x |-> xb, num_samples |-> num_samples,
        mcmc_method |-> "", kwargs |-> {}]

\* Whether sample() was given any of its three overrides.
HasOverride(q) ==
  q.sample_with_mcmc # None \/ q.mcmc_method # None \/ q.mcmc_parameters # None

\* The context checks that open sample().
IsValidX(xo) == xo # None /\ IsSingleX(xo[1]) /\ IsConsistentWithDefaultX(xo[1])

\* The sampler invocation sample() makes once the context checks have passed.
Dispatch(q) ==
  SamplerCall(XElseDefaultX(q.x)[1], Numel(q.sample_shape),
              ResolveSampleWithMcmc(q.sample_with_mcmc),
              ResolveMcmcMethod(q.mcmc_method),
              ResolveMcmcParameters(q.mcmc_parameters))

\* What sample() returns once the sampler has returned num_samples draws.
Reshaped(q) ==
  LET shape == Reshape(Numel(q.sample_shape) * ThetaDim, q.sample_shape) IN
  IF shape = None THEN Raised("RuntimeError") ELSE Returned(shape[1])

SampleResultValidatesLate(q) ==
  IF XElseDefaultX(q.x) = None
  THEN [sampler |-> <<>>, ret |-> Raised("ValueError"), mode |-> sample_with_mcmc]
  ELSE [sampler |-> << Dispatch(q) >>,
        ret |-> IF IsValidX(XElseDefaultX(q.x)) THEN Reshaped(q) ELSE Raised("ValueError"),
        mode |-> sample_with_mcmc]

SampleResultStoresOverride(q) ==
  IF ~IsValidX(XElseDefaultX(q.x))
  THEN [sampler |-> <<>>, ret |-> Raised("ValueError"), mode |-> sample_with_mcmc]
  ELSE [sampler |-> << Dispatch(q) >>, ret |-> Reshaped(q),
        mode |-> ResolveSampleWithMcmc(q.sample_with_mcmc)]

\* sample(...): the sampler invocations it makes, what it returns or raises, and
\* the sampling mode stored afterwards.
SampleResult(q) ==
  IF ~IsValidX(XElseDefaultX(q.x))
  THEN [sampler |-> <<>>, ret |-> Raised("ValueError"), mode |-> sample_with_mcmc]
  ELSE [sampler |-> << Dispatch(q) >>, ret |-> Reshaped(q), mode |-> sample_with_mcmc]

\* sample(sample_shape, x, sample_with_mcmc, mcmc_method, mcmc_parameters); either
\* sampler returns num_samples draws of ThetaDim entries each.
Sample(q) ==
  LET r == SampleResult(q) IN
  /\ op' = "sample"
  /\ args' = q
  /\ sampler' = r.sampler
  /\ ret' = r.ret
  /\ sample_with_mcmc' = r.mode
  /\ estimated' = <<>>
  /\ overridden' = (overridden \/ HasOverride(q))
  /\ UNCHANGED << config, default_x, leakage_density_correction_factor, saved_at, run,
                  loop >>

\* Contexts with finite entries, as one object each.
SampleContexts == { c \in Contexts : c.id = 1 /\ \A i \in DOMAIN c.val : IsFinite(c.val[i]) }

\* x arguments of sample(): None or a batch of rows.
XArgs ==
  {None} \cup { Some(b) : b \in UNION { [1..n -> { c.val : c \in SampleContexts }] :
                                         n \in 1..MaxBatch } }

Shapes == UNION { [1..r -> 0..MaxDim] : r \in {0, 1, 2} }

OptionalOf(S) == {None} \cup { Some(v) : v \in S }

\* The sample() calls studied: every shape and context without MCMC overrides,
\* and every combination of overrides for one shape.
SampleRequests ==
  [sample_shape : Shapes, x : XArgs, sample_with_mcmc : OptionalOf(BOOLEAN),
   mcmc_method : {None}, mcmc_parameters : {None}]
  \cup
  [sample_shape : { <<MaxDim>> }, x : { a \in XArgs : a # None => Len(a[1]) = 1 },
   sample_with_mcmc : OptionalOf(BOOLEAN),
   mcmc_method : OptionalOf({"hmc"}), mcmc_parameters : OptionalOf(Dicts)]

SampleCall == request # None /\ Sample(request[1])

\* A posterior as constructed with any mcmc_parameters, and the sample() call to
\* study on it.
InitSample ==
  /\ \E family \in MethodFamilies, use_mcmc \in BOOLEAN, parameters \in Dicts :
       Constructed(family, use_mcmc, "slice_np", parameters)
  /\ \E q \in SampleRequests : request = Some(q)

NextSample ==
  \/ \E x \in SampleContexts : SetDefaultX(x)
  \/ \E use_mcmc \in BOOLEAN : SetSampleWithMcmc(use_mcmc)
  \/ SampleCall

SpecSample == InitSample /\ [][NextSample]_vars

\* C6 (rejection sampling is reserved to snpe): on a posterior of another method
\* family no sample() call, whatever its arguments, runs the rejection sampler.
C6_RejectionOnlyForSnpe ==
  (op = "sample" /\ method_family # "snpe") =>
    \A i \in DOMAIN sampler : sampler[i].path # "rejection"

\* C9 as claimed (key-by-key merge): with an mcmc_parameters override the chain
\* runner gets the override's value for every key of the override and the
\* configured value for every configured key absent from it.
C9_MergedKeyByKey ==
  (op = "sample" /\ args.mcmc_parameters # None
   /\ sampler # <<>> /\ sampler[1].path = "mcmc") =>
    /\ \A p \in args.mcmc_parameters[1] : p \in sampler[1].kwargs
    /\ \A p \in mcmc_parameters :
         p[1] \notin Keys(args.mcmc_parameters[1]) => p \in sampler[1].kwargs

\* C9 (as amended): with an mcmc_parameters override the chain runner gets
\* exactly the override's entries: the override's value for every key of the
\* override and no configured value for the keys absent from it (the override
\* replaces the configured record as a whole).
C9_OverrideReplacesRecord ==
  (op = "sample" /\ args.mcmc_parameters # None
   /\ sampler # <<>> /\ sampler[1].path = "mcmc") =>
    sampler[1].kwargs = args.mcmc_parameters[1]

C9_Witness ==
  /\ op = "sample" /\ args.mcmc_parameters # None
  /\ sampler # <<>> /\ sampler[1].path = "mcmc"
  /\ Keys(args.mcmc_parameters[1]) = {"thin"}
  /\ Keys(mcmc_parameters) = {"thin", "warmup_steps"}
  /\ args.mcmc_parameters[1] \cap mcmc_parameters = {}
  /\ sampler[1].kwargs = args.mcmc_parameters[1]

\* C10 (sample count and shape): for every sample_shape a sample() call that
\* reaches a sampler requests numel(sample_shape) draws from it and returns
\* them arranged as sample_shape followed by the parameter dimension, on the
\* MCMC and on the rejection path alike.
C10_CountAndShape ==
  (op = "sample" /\ sampler # <<>>) =>
    /\ sampler[1].num_samples = Numel(args.sample_shape)
    /\ ret.raised = ""
    /\ ret.value = args.sample_shape \o << ThetaDim >>

(* --------------------- sample on a posterior in use --------------------- *)

\* The request without its three overrides.
WithoutOverrides(q) ==
  [q EXCEPT !.sample_with_mcmc = None, !.mcmc_method = None, !.mcmc_parameters = None]

\* sample() calls with any batch as x and any combination of overrides.
SampleRequestsStored ==
  [sample_shape : { <<MaxDim>> }, x : XArgs, sample_with_mcmc : OptionalOf(BOOLEAN),
   mcmc_method : OptionalOf({"hmc"}),
   mcmc_parameters : OptionalOf({ d \in Dicts : Keys(d) \subseteq {"thin"} })]

\* The call under study, then the same call without overrides.
SampleCallStored == request # None /\ Sample(request[1])

SampleCallPlain == request # None /\ Sample(WithoutOverrides(request[1]))

\* A posterior as constructed with both MCMC keys configured, and the sample()
\* call to study on it.
InitSampleStored ==
  /\ \E family \in {"snpe", "snl"}, use_mcmc \in BOOLEAN :
       \E parameters \in { d \in Dicts : Keys(d) = McmcKeys /\ \A e \in d : e[2] = MaxParam } :
         Constructed(family, use_mcmc, "slice_np", parameters)
  /\ \E q \in SampleRequestsStored : request = Some(q)

NextSampleStored ==
  \/ \E x \in SampleContexts : SetDefaultX(x)
  \/ default_x # None /\ LeakageCorrection(default_x[1], TRUE)
  \/ SampleCallStored
  \/ SampleCallPlain

SpecSampleStored == InitSampleStored /\ [][NextSampleStored]_vars

\* The resolved context of the sample() call q is a batch of several contexts,
\* or differs from the default context already set.
IsRejectedX(q) ==
  /\ XElseDefaultX(q.x) # None
  /\ \/ Len(XElseDefaultX(q.x)[1]) > 1
     \/ default_x # None /\ AnyNe(XElseDefaultX(q.x)[1][1], default_x[1].val)

\* C14 (eager validation): a sample() call whose resolved context is a batch of
\* more than one context, or conflicts with the default context already set,
\* raises without invoking the chain runner or the rejection sampler or
\* estimating anything, and leaves the stored correction factor, the default
\* context and the stored sampling mode as they were.
C14_EagerValidation ==
  [][ (op' = "sample" /\ IsRejectedX(args'))
      => /\ ret'.raised = "ValueError"
         /\ sampler' = <<>>
         /\ estimated' = <<>>
         /\ leakage_density_correction_factor' = leakage_density_correction_factor
         /\ default_x' = default_x
         /\ sample_with_mcmc' = sample_with_mcmc
    ]_vars

C14_Witness ==
  /\ op = "sample" /\ IsRejectedX(args)
  /\ Len(args.x[1]) = 1
  /\ ret.raised = "ValueError"
  /\ leakage_density_correction_factor # None
  /\ args.sample_with_mcmc = Some(FALSE)

\* C15 (sample is read-only): a sample() call, with or without overrides and on
\* either path, leaves the stored sampling mode, MCMC method, MCMC parameters,
\* default context and correction factor unchanged; a call without overrides
\* dispatches on the stored mode, method and parameters, also after calls that
\* had overrides.
C15_SampleReadOnly ==
  [][ op' = "sample"
      => /\ sample_with_mcmc' = sample_with_mcmc
         /\ mcmc_method' = mcmc_method
         /\ mcmc_parameters' = mcmc_parameters
         /\ default_x' = default_x
         /\ leakage_density_correction_factor' = leakage_density_correction_factor
         /\ saved_at' = saved_at
         /\ (~HasOverride(args') /\ sampler' # <<>>)
              => sampler'[1] = SamplerCall(XElseDefaultX(args'.x)[1], Numel(args'.sample_shape),
                                           sample_with_mcmc, mcmc_method, mcmc_parameters)
    ]_vars

\* A call without overrides, after a call that overrode the mode, the method and
\* the parameters, on a posterior with a stored factor.
C15_Witness ==
  /\ op = "sample" /\ ~HasOverride(args) /\ overridden
  /\ request[1].sample_with_mcmc = Some(~sample_with_mcmc)
  /\ request[1].mcmc_method # None /\ request[1].mcmc_parameters # None
  /\ sampler # <<>> /\ ret.raised = ""
  /\ leakage_density_correction_factor # None

(* --------------------------- rejection sampling ------------------------- *)

\* How much of the estimator's mass at x lies within the prior's support.
Supports == {"none", "part", "all"}

\* sample() calls with the estimator they run against.
RejectionRequests ==
  [sample_shape : { sh \in Shapes : Len(sh) = 1 },
   x : { a \in XArgs : a # None => Len(a[1]) = 1 },
   sample_with_mcmc : OptionalOf(BOOLEAN), mcmc_method : {None}, mcmc_parameters : {None},
   support : Supports]

\* sample() is inside utils.sample_posterior_within_prior.
Running == [raised |-> "", value |-> <<>>]

\* sample(...) up to the sampler call: a call the checks reject raises, a call on
\* the MCMC path returns what the chain runner produced, a call on the rejection
\* path enters the sampler's loop with num_samples draws still to accept.
SampleStart ==
  /\ request # None /\ loop = None
  /\ LET q == request[1]
         r == SampleResult(q) IN
       IF r.sampler # <<>> /\ r.sampler[1].path = "rejection"
       THEN /\ op' = "sample"
            /\ args' = q
            /\ sampler' = r.sampler
            /\ ret' = Running
            /\ loop' = Some([num_remaining |-> r.sampler[1].num_samples, attempts |-> 0])
            /\ sample_with_mcmc' = r.mode
            /\ estimated' = <<>>
            /\ overridden' = (overridden \/ HasOverride(q))
            /\ UNCHANGED << config, default_x, leakage_density_correction_factor,
                            saved_at, run >>
       ELSE Sample(q)

Attempted(l) == [l EXCEPT !.attempts = (@ + 1) % (MaxAttempts + 1)]

\* One round of the sampler's loop in which accepted of the candidates drawn
\* from the estimator lie within the prior's support.
RejectionAccept(accepted) ==
  /\ loop # None /\ loop[1].num_remaining > 0
  /\ request[1].support # "none"
  /\ accepted \in 1..loop[1].num_remaining
  /\ loop' = Some([Attempted(loop[1]) EXCEPT !.num_remaining = @ - accepted])
  /\ UNCHANGED << config, sample_with_mcmc, default_x, leakage_density_correction_factor,
                  saved_at, op, args, ret, estimated, sampler, run, overridden >>

\* One round in which no candidate lies within the prior's support.
RejectionReject ==
  /\ loop # None /\ loop[1].num_remaining > 0
  /\ request[1].support # "all"
  /\ loop' = Some(Attempted(loop[1]))
  /\ UNCHANGED << config, sample_with_mcmc, default_x, leakage_density_correction_factor,
                  saved_at, op, args, ret, estimated, sampler, run, overridden >>

\* The sampler has accepted num_samples draws: sample() reshapes and returns.
RejectionReturn ==
  /\ loop # None /\ loop[1].num_remaining = 0
  /\ ret' = Reshaped(args)
  /\ loop' = None
  /\ UNCHANGED << config, sample_with_mcmc, default_x, leakage_density_correction_factor,
                  saved_at, op, args, estimated, sampler, run, overridden >>

InitRejection ==
  /\ \E family \in {"snpe", "snl"}, use_mcmc \in BOOLEAN :
       Constructed(family, use_mcmc, "slice_np", {})
  /\ \E q \in RejectionRequests : request = Some(q)

NextRejection ==
  \/ loop = None /\ \E x \in SampleContexts : SetDefaultX(x)
  \/ SampleStart
  \/ \E accepted \in 1..MaxDim : RejectionAccept(accepted)
  \/ RejectionReject
  \/ RejectionReturn

\* The loop keeps running its rounds, a round that can accept is eventually a
\* round that does, and a finished loop returns; nothing obliges the caller to
\* call sample().
SpecRejection ==
  /\ InitRejection /\ [][NextRejection]_vars
  /\ WF_vars(\E accepted \in 1..MaxDim : RejectionAccept(accepted))
  /\ WF_vars(RejectionReject)
  /\ WF_vars(RejectionReturn)

\* C11 (rejection sampling always ends): every sample() call that has entered
\* the rejection sampler eventually leaves it, by returning or by raising, also
\* when no candidate is ever accepted.
C11_RejectionEnds == (loop # None) ~> (loop = None)

(* ------------------------- construction and mode ------------------------ *)

\* __init__ before its last statement: the attributes hold what the base class
\* constructor left (MCMC mode, no default_x, no stored factor).
InitNew ==
  /\ method_family \in MethodFamilies
  /\ sample_with_mcmc = TRUE
  /\ mcmc_method = "slice_np"
  /\ mcmc_parameters = {}
  /\ default_x = None
  /\ leakage_density_correction_factor = None
  /\ saved_at = None
  /\ op = "new"
  /\ args = [sample_with_mcmc |-> TRUE]
  /\ ret = Returned("self")
  /\ estimated = <<>>
  /\ sampler = <<>>
  /\ run = NoRun
  /\ overridden = FALSE
  /\ loop = None
  /\ NoRequest

\* __init__(..., sample_with_mcmc): self.set_sample_with_mcmc(sample_with_mcmc);
\* what it raises leaves __init__, and no posterior is built.
Construct(use_mcmc) ==
  LET r == SetSampleWithMcmcResult(use_mcmc) IN
  /\ op = "new"
  /\ sample_with_mcmc' = r.mode
  /\ op' = "__init__"
  /\ args' = [sample_with_mcmc |-> use_mcmc]
  /\ ret' = IF r.raised # "" THEN Raised(r.raised) ELSE Returned("self")
  /\ UNCHANGED << config, default_x, leakage_density_correction_factor, saved_at,
                  estimated, sampler, run, overridden, loop >>

\* __init__ has returned a posterior.
Exists == op # "new" /\ ~(op = "__init__" /\ ret.raised # "")

NextLife ==
  \/ \E use_mcmc \in BOOLEAN : Construct(use_mcmc)
  \/ Exists /\ \E use_mcmc \in BOOLEAN : SetSampleWithMcmc(use_mcmc)
  \/ Exists /\ \E x \in Contexts : SetDefaultX(x)
  \/ Exists /\ default_x # None /\ LeakageCorrection(default_x[1], FALSE)

SpecLife == InitNew /\ [][NextLife]_vars

\* C12 (pinned stored mode): a posterior of a method family other than snpe
\* stores MCMC mode in every state after construction, whatever
\* set_sample_with_mcmc calls succeeded or failed; constructing one with
\* sample_with_mcmc=False fails; a snpe posterior can always be switched to
\* either mode.
C12_PinnedMode ==
  /\ (Exists /\ method_family # "snpe") => sample_with_mcmc
  /\ (op = "__init__" /\ method_family # "snpe" /\ ~args.sample_with_mcmc)
       => ret.raised = "ValueError"
  /\ (op = "__init__" /\ (method_family = "snpe" \/ args.sample_with_mcmc))
       => ret.raised = "" /\ sample_with_mcmc = args.sample_with_mcmc
  /\ (Exists /\ method_family = "snpe") =>
       \A b \in BOOLEAN : SetSampleWithMcmcResult(b) = [raised |-> "", mode |-> b]

C12_Witness ==
  /\ Exists /\ method_family = "snl"
  /\ op = "set_sample_with_mcmc" /\ ~args.use_mcmc /\ ret.raised = "ValueError"
  /\ sample_with_mcmc
  /\ default_x # None

(* ------------------------------ specification --------------------------- *)

Next ==
  \/ \E x \in Contexts : SetDefaultX(x)
  \/ \E x \in Contexts, force_update \in BOOLEAN : LeakageCorrection(x, force_update)
  \/ \E use_mcmc \in BOOLEAN : SetSampleWithMcmc(use_mcmc)

Spec == Init /\ [][Next]_vars

====
